---- MODULE Spec2Model ----
(***************************************************************************)
(* DynUNet (monai/networks/nets/dynunet.py): construction of the network   *)
(* from per-stage sequences, the recursive skip-layer chain, and the       *)
(* forward evaluation with the shared deep-supervision head buffer.        *)
(***************************************************************************)
EXTENDS Integers, Sequences, FiniteSets, TLC

\* ------------------------------------------------------------------ bounds
\* longest kernel_size / strides sequence drawn as constructor input
MaxLen == 4
\* number of forward calls started on one network instance
MaxCalls == 3
\* number of distinct input tensors
NumInputs == 2
\* spatial size (per axis) of every input tensor
InputShape == 8

\* the caller's threads that may invoke forward on the instance
Threads == {"t1", "t2"}
\* forward calls started when the caller takes no lock: one per thread
MaxConcCalls == Cardinality(Threads)

\* ------------------------------------------------------- Python sequences
Min(a, b) == IF a <= b THEN a ELSE b
Max(a, b) == IF a >= b THEN a ELSE b

\* s[i] is defined for -len <= i < len
PyHas(s, i) == -Len(s) <= i /\ i < Len(s)
PyAt(s, i) == IF i < 0 THEN s[Len(s) + i + 1] ELSE s[i + 1]

\* s[a:b] with Python's clamping of negative and out-of-range bounds
PyNorm(i, n) == IF i < 0 THEN Max(i + n, 0) ELSE Min(i, n)
PySlice(s, a, b) ==
    LET lo == PyNorm(a, Len(s))
        hi == PyNorm(b, Len(s))
    IN  IF lo >= hi THEN <<>> ELSE SubSeq(s, lo + 1, hi)
\* s[a:]
PyFrom(s, a) == PySlice(s, a, Len(s))
\* s[::-1]
PyReversed(s) == [i \in 1..Len(s) |-> s[Len(s) + 1 - i]]
\* [x] * n
PyRepeat(x, n) == [i \in 1..Max(n, 0) |-> x]

\* ------------------------------------------------ constructor arguments
\* One entry of kernel_size / strides / output_paddings: an int, or a tuple
\* of n ints; v is the (per-axis) value.
IntEntry(v) == [int |-> TRUE, n |-> 0, v |-> v]
TupleEntry(n, v) == [int |-> FALSE, n |-> n, v |-> v]
NoEntry == [int |-> FALSE, n |-> 0, v |-> 0]

\* kernel_size of length L: every entry an int, or one tuple of `n` ints at
\* position `bad` (bad = 0: none).  Entry i has kernel 2i+1.
KernelSeq(L, bad, n) ==
    [i \in 1..L |-> IF i = bad THEN TupleEntry(n, 2 * i + 1) ELSE IntEntry(2 * i + 1)]
\* strides of length L: stride 1 at the input stage, 2 below it.
StrideSeq(L, bad, n) ==
    [i \in 1..L |-> IF i = bad THEN TupleEntry(n, IF i = 1 THEN 1 ELSE 2)
                    ELSE IntEntry(IF i = 1 THEN 1 ELSE 2)]
PaddingSeq(L) == [i \in 1..L |-> IntEntry(i - 1)]
\* an explicit filters argument of length L
FilterSeq(L) == [i \in 1..L |-> 4 * i]

\* fopt = 0: filters=None; otherwise an explicit list of len(strides)+fopt-2
MkArgs(dims, lk, bk, ls, bs, fopt, dop, dsn, res) ==
    [spatial_dims |-> dims, in_channels |-> 1, cls_out_channels |-> 2,
     seg_out_channels |-> 3,
     kernel_size |-> KernelSeq(lk, IF bk = 2 THEN lk ELSE bk, 2),
     strides |-> StrideSeq(ls, IF bs = 2 THEN ls ELSE bs, 2),
     output_paddings |-> PaddingSeq(Max(0, ls + dop)),
     filters_is_None |-> (fopt = 0),
     filters |-> IF fopt = 0 THEN <<>> ELSE FilterSeq(Max(0, ls + fopt - 2)),
     deep_supr_num |-> dsn,
     res_block |-> res]

\* every constructor call the construction claims range over
AllArgs ==
    {MkArgs(dims, lk, bk, ls, bs, fopt, dop, dsn, res) :
        dims \in {2, 3}, lk \in 0..MaxLen, bk \in 0..2, ls \in 0..MaxLen,
        bs \in 0..2, fopt \in 0..3, dop \in -2..0, dsn \in -1..(MaxLen - 1),
        res \in BOOLEAN}

\* the constructor calls the forward claims range over: scalar kernels and
\* strides of equal length, filters=None
PlainArgs ==
    {MkArgs(3, l, 0, l, 0, 0, dop, dsn, FALSE) :
        l \in 2..MaxLen, dop \in -2..-1, dsn \in -1..(MaxLen - 1)}

\* ------------------------------------------------------------- blocks
None == [cls |-> "None"]

\* a block of the block library, as constructed: its class and parameters;
\* id names the attribute (and position) it is stored under
Block(cls, id, in_c, out_c, kernel, stride, output_padding) ==
    [cls |-> cls, id |-> id, in_channels |-> in_c, out_channels |-> out_c,
     kernel_size |-> kernel, stride |-> stride, output_padding |-> output_padding]

conv_block(a) == IF a.res_block THEN "UnetResBlock" ELSE "UnetBasicBlock"

\* filters derived when filters is None
DefaultFilters(a) ==
    [i \in 1..Len(a.strides) |->
        Min(2 ^ (5 + (i - 1)), IF a.spatial_dims = 3 THEN 320 ELSE 512)]

\* zip(...) stops at the shortest sequence
ZipLen2(a, b) == Min(Len(a), Len(b))
ZipLen4(a, b, c, d) == Min(ZipLen2(a, b), ZipLen2(c, d))

get_module_list(id, in_channels, out_channels, kernel_size, strides, cls) ==
    [i \in 1..ZipLen4(in_channels, out_channels, kernel_size, strides) |->
        Block(cls, <<id, i - 1>>, in_channels[i], out_channels[i],
              kernel_size[i], strides[i], NoEntry)]

get_module_list_up(id, in_channels, out_channels, kernel_size, strides, output_paddings) ==
    [i \in 1..Min(ZipLen4(in_channels, out_channels, kernel_size, strides),
                  Len(output_paddings)) |->
        Block("UnetUpBlock", <<id, i - 1>>, in_channels[i], out_channels[i],
              kernel_size[i], strides[i], output_paddings[i])]

get_seg_output_block(a, id, filters, idx) ==
    Block("UnetOutBlock", id, PyAt(filters, idx), a.seg_out_channels,
          NoEntry, NoEntry, NoEntry)

get_cls_output_block(a, id, filters, idx) ==
    Block("UNetClsOutBlock", id, PyAt(filters, idx), a.cls_out_channels,
          NoEntry, NoEntry, NoEntry)

\* ------------------------------------------------------------- state
VARIABLES
    args,          \* the constructor's arguments
    pc,            \* the constructor's position, then "constructed" / "raised"
    error,         \* the exception construction raised, "none" if none
    self,          \* the instance's attributes
    built,         \* the attributes assigned so far
    caller_lock,   \* whether the caller serializes forward calls
    call,          \* per thread: the forward call in progress
    ncalls,        \* forward calls started
    headWriter,    \* per head-buffer slot: the call that wrote it (0: __init__)
    seen           \* per (input, mode): the result of the first such call
                   \* among serialized calls
                   \* (call's stackedFrom, log, writes, heads0 and overlapped
                   \* are history of the call, not program state)

vars == <<args, pc, error, self, built, caller_lock, call, ncalls, headWriter, seen>>
fwdvars == <<caller_lock, call, ncalls, headWriter, seen>>

StageAttrs ==
    {"input_block", "downsamples", "bottleneck", "upsamples",
     "cls_output_block", "seg_output_block", "deep_supervision_heads"}

\* a tensor: val is the expression that computed it (block ids and input
\* tensors, in prefix order), shape its spatial size per axis
NoTensor == [val |-> <<>>, shape |-> 0]
InputTensor(x) == [val |-> << <<"x", x>> >>, shape |-> InputShape]

NoResult ==
    [set |-> FALSE, cls_out |-> NoTensor, seg_out |-> <<>>, stacked |-> FALSE,
     heads0 |-> <<>>]
IdleCall ==
    [pc |-> "idle", id |-> 0, x |-> 0, training |-> FALSE, lvl |-> 0,
     overlapped |-> FALSE, down_out |-> <<>>, bottleneck_out |-> NoTensor,
     up_out |-> NoTensor, cls_out |-> NoTensor, seg_out |-> <<>>, stacked |-> FALSE,
     stackedFrom |-> <<>>, log |-> <<>>, writes |-> <<>>, heads0 |-> <<>>]

InitWith(a, lock) ==
    /\ args = a
    /\ pc = "check_filters"
    /\ error = "none"
    /\ self = [filters |-> <<>>, input_block |-> None, downsamples |-> <<>>,
               bottleneck |-> None, upsamples |-> <<>>, cls_output_block |-> None,
               seg_output_block |-> None, deep_supr_num |-> 0, heads |-> <<>>,
               deep_supervision_heads |-> <<>>, skip_layers |-> None,
               training |-> TRUE]
    /\ built = {}
    /\ caller_lock = lock
    /\ call = [t \in Threads |-> IdleCall]
    /\ ncalls = 0
    /\ headWriter = <<>>
    /\ seen = [k \in (1..NumInputs) \X BOOLEAN |-> NoResult]

Raise(kind) ==
    /\ pc' = "raised"
    /\ error' = kind

\* ------------------------------------------------------ DynUNet.__init__
\* lines 163-167: derive or take filters, then check_filters
SetFilters ==
    /\ pc = "check_filters"
    /\ LET filters == IF args.filters_is_None THEN DefaultFilters(args) ELSE args.filters
       IN  IF Len(filters) < Len(args.strides)
           THEN /\ Raise("InsufficientFilters")
                /\ self' = [self EXCEPT !.filters = filters]
           ELSE /\ self' = [self EXCEPT !.filters = PySlice(filters, 0, Len(args.strides))]
                /\ pc' = "get_input_block"
                /\ error' = error
    /\ built' = built \cup {"filters"}
    /\ UNCHANGED <<args, fwdvars>>

GetInputBlock ==
    /\ pc = "get_input_block"
    /\ IF PyHas(self.filters, 0) /\ PyHas(args.kernel_size, 0) /\ PyHas(args.strides, 0)
       THEN /\ self' = [self EXCEPT !.input_block =
                    Block(conv_block(args), <<"input_block", 0>>, args.in_channels, PyAt(self.filters, 0),
                          PyAt(args.kernel_size, 0), PyAt(args.strides, 0), NoEntry)]
            /\ built' = built \cup {"input_block"}
            /\ pc' = "get_downsamples"
            /\ error' = error
       ELSE /\ Raise("IndexError")
            /\ UNCHANGED <<self, built>>
    /\ UNCHANGED <<args, fwdvars>>

get_downsamples(a, filters) ==
    get_module_list("downsamples", PySlice(filters, 0, -2), PySlice(filters, 1, -1),
                    PySlice(a.kernel_size, 1, -1), PySlice(a.strides, 1, -1),
                    conv_block(a))

GetDownsamples ==
    /\ pc = "get_downsamples"
    /\ self' = [self EXCEPT !.downsamples = get_downsamples(args, self.filters)]
    /\ built' = built \cup {"downsamples"}
    /\ pc' = "get_bottleneck"
    /\ UNCHANGED <<args, error, fwdvars>>

GetBottleneck ==
    /\ pc = "get_bottleneck"
    /\ IF PyHas(self.filters, -2) /\ PyHas(self.filters, -1)
          /\ PyHas(args.kernel_size, -1) /\ PyHas(args.strides, -1)
       THEN /\ self' = [self EXCEPT !.bottleneck =
                    Block(conv_block(args), <<"bottleneck", 0>>, PyAt(self.filters, -2),
                          PyAt(self.filters, -1), PyAt(args.kernel_size, -1),
                          PyAt(args.strides, -1), NoEntry)]
            /\ built' = built \cup {"bottleneck"}
            /\ pc' = "get_upsamples"
            /\ error' = error
       ELSE /\ Raise("IndexError")
            /\ UNCHANGED <<self, built>>
    /\ UNCHANGED <<args, fwdvars>>

\* (mutant) kernel sizes and strides taken in stage order, not reversed
get_upsamples_kernels_unreversed(a, filters) ==
    get_module_list_up("upsamples",
                       PySlice(PyReversed(filters), 0, -1),
                       PyFrom(PyReversed(filters), 1),
                       PyFrom(a.kernel_size, 1),
                       PyFrom(a.strides, 1),
                       PyReversed(a.output_paddings))

get_upsamples(a, filters) ==
    get_module_list_up("upsamples",
                       PySlice(PyReversed(filters), 0, -1),
                       PyFrom(PyReversed(filters), 1),
                       PySlice(PyReversed(a.kernel_size), 0, -1),
                       PySlice(PyReversed(a.strides), 0, -1),
                       PyReversed(a.output_paddings))

GetUpsamples ==
    /\ pc = "get_upsamples"
    /\ self' = [self EXCEPT !.upsamples = get_upsamples(args, self.filters)]
    /\ built' = built \cup {"upsamples"}
    /\ pc' = "get_output_blocks"
    /\ UNCHANGED <<args, error, fwdvars>>

\* lines 172-175
GetOutputBlocks ==
    /\ pc = "get_output_blocks"
    /\ self' = [self EXCEPT
                  !.cls_output_block =
                      get_cls_output_block(args, <<"cls_output_block", 0>>, self.filters, -1),
                  !.seg_output_block =
                      get_seg_output_block(args, <<"seg_output_block", 0>>, self.filters, 0)]
    /\ built' = built \cup {"cls_output_block", "seg_output_block"}
    /\ pc' = "get_deep_supervision_heads"
    /\ UNCHANGED <<args, error, fwdvars>>

\* the placeholder torch.empty(1) the head buffer is initialized with
EmptyTensor == [val |-> << <<"empty", 1>> >>, shape |-> 0]

\* the check of get_deep_supervision_heads: whether it raises
DeepSuprNumOutOfRange(deep_supr_num, strides) ==
    LET num_up_layers == Len(strides) - 1
    IN  deep_supr_num >= num_up_layers

get_deep_supervision_heads(a, deep_supr_num, filters) ==
    [i \in 1..Max(deep_supr_num, 0) |->
        get_seg_output_block(a, <<"deep_supervision_heads", i - 1>>, filters, (i - 1) + 1)]

\* lines 176-180
GetDeepSupervisionHeads ==
    /\ pc = "get_deep_supervision_heads"
    /\ LET dsn == args.deep_supr_num
           withHeads == [self EXCEPT !.deep_supr_num = dsn,
                                     !.heads = PyRepeat(EmptyTensor, dsn)]
       IN  /\ headWriter' = PyRepeat(0, dsn)
           /\ IF DeepSuprNumOutOfRange(dsn, args.strides)
              THEN /\ Raise("DeepSupervisionRangeError")
                   /\ self' = withHeads
                   /\ built' = built \cup {"deep_supr_num", "heads"}
              ELSE /\ self' = [withHeads EXCEPT !.deep_supervision_heads =
                                   get_deep_supervision_heads(args, dsn, self.filters)]
                   /\ built' = built \cup {"deep_supr_num", "heads", "deep_supervision_heads"}
                   /\ pc' = "check_kernel_stride"
                   /\ error' = error
    /\ UNCHANGED <<args, caller_lock, call, ncalls, seen>>

\* check_kernel_stride: the error it raises, "none" if it returns
RECURSIVE check_entries(_, _, _, _)
check_entries(kernels, strides, spatial_dims, idx) ==
    IF idx > Len(kernels) THEN "none"
    ELSE IF ~kernels[idx].int /\ kernels[idx].n # spatial_dims THEN "ShapeError"
    ELSE IF ~strides[idx].int /\ strides[idx].n # spatial_dims THEN "ShapeError"
    ELSE check_entries(kernels, strides, spatial_dims, idx + 1)

check_kernel_stride(kernels, strides, spatial_dims) ==
    IF Len(kernels) # Len(strides) \/ Len(kernels) < 3
    THEN "LengthMismatch"
    ELSE check_entries(kernels, strides, spatial_dims, 1)

\* lines 182-183 (initialize_weights changes no structure)
CheckKernelStride ==
    /\ pc = "check_kernel_stride"
    /\ LET e == check_kernel_stride(args.kernel_size, args.strides, args.spatial_dims)
       IN  IF e # "none"
           THEN Raise(e)
           ELSE /\ pc' = "create_skips"
                /\ error' = error
    /\ UNCHANGED <<args, self, built, fwdvars>>

\* a DynUNetSkipLayer; every instance holds the same list object self.heads
DynUNetSkipLayer(index, downsample, upsample, next_layer, super_head) ==
    [cls |-> "DynUNetSkipLayer", index |-> index, downsample |-> downsample,
     upsample |-> upsample, next_layer |-> next_layer, super_head |-> super_head,
     heads |-> "self.heads"]

\* (mutant) the index > 0 guard dropped: the top level takes the first head
TakesHeadFromTop(index, super_heads) == Len(super_heads) > 0

\* whether create_skips pops a head for the level it is building (line 208)
TakesHead(index, super_heads) == index > 0 /\ Len(super_heads) > 0

\* create_skips: [raised, node]
RECURSIVE create_skips(_, _, _, _, _)
create_skips(index, downsamples, upsamples, bottleneck, super_heads) ==
    IF Len(downsamples) # Len(upsamples) THEN [raised |-> TRUE, node |-> None]
    ELSE IF Len(downsamples) = 0 THEN [raised |-> FALSE, node |-> bottleneck]
    ELSE LET take == TakesHead(index, super_heads)
             cur_super_head == IF take THEN super_heads[1] ELSE None
             rest == IF take THEN PyFrom(super_heads, 1) ELSE super_heads
             next == create_skips(1 + index, PyFrom(downsamples, 1),
                                  PyFrom(upsamples, 1), bottleneck, rest)
         IN  IF next.raised THEN next
             ELSE [raised |-> FALSE,
                   node |-> DynUNetSkipLayer(index, downsamples[1], upsamples[1],
                                             next.node, cur_super_head)]

\* lines 222-228
CreateSkips ==
    /\ pc = "create_skips"
    /\ LET r == create_skips(0, <<self.input_block>> \o self.downsamples,
                             PyReversed(self.upsamples), self.bottleneck,
                             self.deep_supervision_heads)
       IN  IF r.raised
           THEN /\ Raise("StructureMismatch")
                /\ UNCHANGED <<self, built>>
           ELSE /\ self' = [self EXCEPT !.skip_layers = r.node]
                /\ built' = built \cup {"skip_layers"}
                /\ pc' = "constructed"
                /\ error' = error
    /\ UNCHANGED <<args, fwdvars>>

NextInit ==
    \/ SetFilters
    \/ GetInputBlock
    \/ GetDownsamples
    \/ GetBottleneck
    \/ GetUpsamples
    \/ GetOutputBlocks
    \/ GetDeepSupervisionHeads
    \/ CheckKernelStride
    \/ CreateSkips

\* ------------------------------------------------------ block library
\* block(x): the block's transform of x.  Convolution blocks divide the
\* spatial size by their stride; output blocks keep it; the classification
\* block pools it away.
Apply(block, x) ==
    [val |-> <<block.id>> \o x.val,
     shape |-> IF block.cls \in {"UnetBasicBlock", "UnetResBlock"}
               THEN x.shape \div block.stride.v
               ELSE IF block.cls = "UNetClsOutBlock" THEN 0 ELSE x.shape]

\* up_block(inp, skip): transposed convolution of inp to the skip tensor's
\* resolution, concatenation with skip, convolution
ApplyUp(block, inp, skip) ==
    [val |-> <<block.id>> \o inp.val \o skip.val, shape |-> skip.shape]

\* torch.nn.functional.interpolate(x, size)
interpolate(x, size) ==
    [val |-> << <<"interpolate", size>> >> \o x.val, shape |-> size]

\* ------------------------------------------------ DynUNetSkipLayer.forward
\* the SkipLayer k links below the top of the chain
RECURSIVE NodeAt(_, _)
NodeAt(node, k) == IF k = 0 THEN node ELSE NodeAt(node.next_layer, k - 1)

Event(op, lvl, a, b, out) == [op |-> op, lvl |-> lvl, a |-> a, b |-> b, out |-> out]

\* line 49
NextIsSkipLayer(layer) == layer.next_layer.cls = "DynUNetSkipLayer"
\* (mutant) the skip tensor and the coarser tensor exchanged
SkipLayerUpSwapped(layer, next_out, down_out) ==
    ApplyUp(layer.upsample, down_out, next_out)

\* line 53
SkipLayerUp(layer, next_out, down_out) == ApplyUp(layer.upsample, next_out, down_out)
\* (mutant) the first supervised level never writes its slot
WritesHeadBelowFirst(layer) == layer.super_head.cls # "None" /\ layer.index > 1

\* line 54
WritesHead(layer) == layer.super_head.cls # "None" /\ layer.index > 0
\* line 55: the buffer slot (0-based) the layer writes
HeadSlot(layer) == layer.index - 1

\* (mutant) the head output accumulated onto the slot instead of replacing it
write_head_accumulate(heads, slot, out) ==
    [heads EXCEPT ![slot + 1] = [val |-> @.val \o out.val, shape |-> out.shape]]

\* line 55: self.heads[slot] = out
write_head(heads, slot, out) == [heads EXCEPT ![slot + 1] = out]

Busy(t) == call[t].pc # "idle"

\* nn.Module.train(mode) / eval(), between forward calls
Train(mode) ==
    /\ pc = "constructed"
    /\ \A t \in Threads : ~Busy(t)
    /\ ncalls < MaxCalls
    /\ mode # self.training
    /\ self' = [self EXCEPT !.training = mode]
    /\ UNCHANGED <<args, pc, error, built, fwdvars>>

\* forward(x) is entered (line 254); self.skip_layers(x) is about to run
ForwardStart(t, x) ==
    /\ pc = "constructed"
    /\ ~Busy(t)
    /\ ncalls < (IF caller_lock THEN MaxCalls ELSE MaxConcCalls)
    /\ caller_lock => \A u \in Threads : ~Busy(u)
    /\ ncalls' = ncalls + 1
    /\ call' = [u \in Threads |->
                 IF u = t
                 THEN [IdleCall EXCEPT !.pc = "down", !.id = ncalls + 1, !.x = x,
                                       !.heads0 = self.heads,
                                       !.overlapped = \E w \in Threads : Busy(w)]
                 ELSE IF Busy(u) THEN [call[u] EXCEPT !.overlapped = TRUE]
                 ELSE call[u]]
    /\ UNCHANGED <<args, pc, error, self, built, caller_lock, headWriter, seen>>

\* line 48, and the call of line 50 when the next layer is a SkipLayer
SkipDown(t) ==
    /\ call[t].pc = "down"
    /\ LET c == call[t]
           layer == NodeAt(self.skip_layers, c.lvl)
           x == IF c.lvl = 0 THEN InputTensor(c.x) ELSE c.down_out[c.lvl]
           down_out == Apply(layer.downsample, x)
           c1 == [c EXCEPT !.down_out = Append(@, down_out),
                           !.log = Append(@, Event("down", c.lvl, x, NoTensor, down_out))]
       IN  call' = [call EXCEPT ![t] =
                      IF NextIsSkipLayer(layer)
                      THEN [c1 EXCEPT !.lvl = c.lvl + 1]
                      ELSE [c1 EXCEPT !.pc = "bottleneck"]]
    /\ UNCHANGED <<args, pc, error, self, built, caller_lock, ncalls, headWriter, seen>>

\* line 52: the bottom layer applies the bottleneck
Bottleneck(t) ==
    /\ call[t].pc = "bottleneck"
    /\ LET c == call[t]
           layer == NodeAt(self.skip_layers, c.lvl)
           down_out == c.down_out[c.lvl + 1]
           out == Apply(layer.next_layer, down_out)
       IN  call' = [call EXCEPT ![t] =
                      [c EXCEPT !.pc = "up", !.bottleneck_out = out, !.up_out = out,
                                !.log = Append(@, Event("bottleneck", c.lvl + 1, down_out,
                                                        NoTensor, out))]]
    /\ UNCHANGED <<args, pc, error, self, built, caller_lock, ncalls, headWriter, seen>>

\* lines 53-57 of the layer at level lvl, whose next layer has returned
\* (bottleneck_out, next_out)
SkipUp(t) ==
    /\ call[t].pc = "up"
    /\ LET c == call[t]
           layer == NodeAt(self.skip_layers, c.lvl)
           next_out == c.up_out
           down_out == c.down_out[c.lvl + 1]
           up_out == SkipLayerUp(layer, next_out, down_out)
           slot == HeadSlot(layer)
           c1 == [c EXCEPT !.up_out = up_out,
                           !.log = Append(@, Event("up", c.lvl, next_out, down_out, up_out))]
           c2 == IF c.lvl = 0 THEN [c1 EXCEPT !.pc = "outputs"]
                 ELSE [c1 EXCEPT !.lvl = c.lvl - 1]
       IN  IF WritesHead(layer)
           THEN IF PyHas(self.heads, slot)
                THEN /\ self' = [self EXCEPT !.heads =
                                  write_head(@, slot, Apply(layer.super_head, up_out))]
                     /\ headWriter' = [headWriter EXCEPT ![slot + 1] = c.id]
                     /\ call' = [call EXCEPT ![t] = [c2 EXCEPT !.writes = Append(@, slot)]]
                ELSE /\ call' = [call EXCEPT ![t] = [c1 EXCEPT !.pc = "IndexError"]]
                     /\ UNCHANGED <<self, headWriter>>
           ELSE /\ call' = [call EXCEPT ![t] = c2]
                /\ UNCHANGED <<self, headWriter>>
    /\ UNCHANGED <<args, pc, error, built, caller_lock, ncalls, seen>>

\* --------------------------------------------------------- DynUNet.forward
\* lines 256-258
Outputs(t) ==
    /\ call[t].pc = "outputs"
    /\ LET c == call[t]
           cls_out == Apply(self.cls_output_block, c.bottleneck_out)
           seg_out == Apply(self.seg_output_block, c.up_out)
       IN  call' = [call EXCEPT ![t] =
                      [c EXCEPT !.cls_out = cls_out, !.seg_out = <<seg_out>>,
                                !.training = self.training,
                                !.pc = IF self.training THEN "stack" ELSE "done"]]
    /\ UNCHANGED <<args, pc, error, self, built, caller_lock, ncalls, headWriter, seen>>

\* lines 259-262: out_all, as the sequence of slices torch.stack joins
StackAll(seg_out, heads) ==
    <<seg_out>> \o [i \in 1..Len(heads) |-> interpolate(heads[i], seg_out.shape)]

Stack(t) ==
    /\ call[t].pc = "stack"
    /\ LET c == call[t]
       IN  call' = [call EXCEPT ![t] =
                      [c EXCEPT !.seg_out = StackAll(c.seg_out[1], self.heads),
                                !.stacked = TRUE,
                                !.stackedFrom = headWriter,
                                !.pc = "done"]]
    /\ UNCHANGED <<args, pc, error, self, built, caller_lock, ncalls, headWriter, seen>>

\* what forward returns; heads0 remembers the buffer the call started with
Result(c) ==
    [set |-> TRUE, cls_out |-> c.cls_out, seg_out |-> c.seg_out, stacked |-> c.stacked,
     heads0 |-> c.heads0]

\* line 263
Return(t) ==
    /\ call[t].pc = "done"
    /\ LET c == call[t]
           k == <<c.x, c.training>>
       IN  seen' = IF seen[k].set \/ ~caller_lock THEN seen
                   ELSE [seen EXCEPT ![k] = Result(c)]
    /\ call' = [call EXCEPT ![t] = IdleCall]
    /\ UNCHANGED <<args, pc, error, self, built, caller_lock, ncalls, headWriter>>

NextCalls ==
    \/ \E t \in Threads, x \in 1..NumInputs : ForwardStart(t, x)
    \/ \E t \in Threads : SkipDown(t)
    \/ \E t \in Threads : Bottleneck(t)
    \/ \E t \in Threads : SkipUp(t)
    \/ \E t \in Threads : Outputs(t)
    \/ \E t \in Threads : Stack(t)
    \/ \E t \in Threads : Return(t)

NextForward ==
    \/ \E mode \in BOOLEAN : Train(mode)
    \/ NextCalls

Next == NextInit \/ NextForward

\* the instance stays in training mode (the default of nn.Module)
NextConc == NextInit \/ NextCalls

\* ------------------------------------------------------------ properties
ValidationErrors ==
    {"InsufficientFilters", "LengthMismatch", "ShapeError", "DeepSupervisionRangeError"}

Terminal == pc \in {"raised", "constructed"}

\* the number of SkipLayer nodes from node down, and the leaf they end in
RECURSIVE ChainLen(_)
ChainLen(node) ==
    IF node.cls = "DynUNetSkipLayer" THEN 1 + ChainLen(node.next_layer) ELSE 0
RECURSIVE Bottom(_)
Bottom(node) == IF node.cls = "DynUNetSkipLayer" THEN Bottom(node.next_layer) ELSE node

\* C1: whenever construction raises a validation error (filters length,
\* kernel_size/strides length or per-stage shape, deep_supr_num range), no
\* stage block (input, downsample, bottleneck, upsample, output or
\* supervision-head block) has been built.
C1_ChecksBeforeStages ==
    (pc = "raised" /\ error \in ValidationErrors) => built \cap StageAttrs = {}

\* C2: once the deep_supr_num check has run, it has raised
\* DeepSupervisionRangeError exactly when deep_supr_num >= len(strides)-1 or
\* deep_supr_num <= 0.
C2_DeepSuprNumRange ==
    "heads" \in built =>
        ((error = "DeepSupervisionRangeError")
            <=> (\/ args.deep_supr_num >= Len(args.strides) - 1
                 \/ args.deep_supr_num <= 0))

\* C3: when kernel_size and strides have unequal lengths or a length below
\* 3 (and filters are long enough), construction ends by raising, and the
\* error is LengthMismatch, whatever deep_supr_num is.
C3_LengthMismatchReported ==
    (/\ Terminal
     /\ Len(args.kernel_size) # Len(args.strides) \/ Len(args.kernel_size) < 3
     /\ error # "InsufficientFilters")
        => error = "LengthMismatch"

ValidSpec ==
    /\ Len(args.kernel_size) = Len(args.strides)
    /\ Len(args.strides) >= 3
    /\ args.filters_is_None \/ Len(args.filters) >= Len(args.strides)
    /\ 0 < args.deep_supr_num
    /\ args.deep_supr_num < Len(args.strides) - 1
    /\ check_entries(args.kernel_size, args.strides, args.spatial_dims, 1) = "none"

\* C4: for every valid spec, with any output_paddings, construction builds
\* len(strides)-2 downsample and len(strides)-1 upsample blocks, create_skips
\* does not raise StructureMismatch, and the chain it returns has
\* len(strides)-1 SkipLayer nodes ending in the bottleneck.
C4_ValidSpecComposes ==
    ValidSpec =>
        /\ "downsamples" \in built => Len(self.downsamples) = Len(args.strides) - 2
        /\ "upsamples" \in built => Len(self.upsamples) = Len(args.strides) - 1
        /\ error # "StructureMismatch"
        /\ pc = "constructed" =>
              /\ ChainLen(self.skip_layers) = Len(args.strides) - 1
              /\ Bottom(self.skip_layers) = self.bottleneck

\* C5: in every constructed network the head buffer has length
\* deep_supr_num, level 0 holds no head, level k in 1..deep_supr_num holds
\* deep_supervision_heads[k-1] and writes buffer slot k-1, and deeper levels
\* hold none.
C5_HeadAttachment ==
    pc = "constructed" =>
        /\ Len(self.heads) = self.deep_supr_num
        /\ self.skip_layers.super_head.cls = "None"
        /\ \A k \in 1..(ChainLen(self.skip_layers) - 1) :
              LET layer == NodeAt(self.skip_layers, k)
              IN  IF k <= self.deep_supr_num
                  THEN /\ layer.super_head = self.deep_supervision_heads[k]
                       /\ WritesHead(layer)
                       /\ HeadSlot(layer) = k - 1
                  ELSE layer.super_head.cls = "None"

\* C6: a finished forward call in training mode returns 1 + deep_supr_num
\* slices: the primary segmentation output, then the buffered head outputs
\* in slot order, each resized to the primary output's spatial shape; in
\* evaluation mode it returns the primary output unstacked.
C6_TrainingStack ==
    \A t \in Threads :
        call[t].pc = "done" =>
            LET c == call[t]
                primary == Apply(self.seg_output_block, c.up_out)
            IN  IF c.training
                THEN /\ c.stacked
                     /\ Len(c.seg_out) = 1 + self.deep_supr_num
                     /\ c.seg_out[1] = primary
                     /\ \A i \in 1..self.deep_supr_num :
                           /\ c.seg_out[i + 1] = interpolate(self.heads[i], primary.shape)
                           /\ c.seg_out[i + 1].shape = primary.shape
                ELSE /\ ~c.stacked
                     /\ c.seg_out = <<primary>>

C8_SerializedOwnSlots ==
    \A t \in Threads :
        (call[t].pc = "done" /\ call[t].stacked /\ ~call[t].overlapped) =>
            \A i \in 1..Len(call[t].stackedFrom) : call[t].stackedFrom[i] = call[t].id

\* a call has stacked a slot that another forward call wrote
C8_Witness ==
    \E t \in Threads :
        /\ call[t].pc = "done"
        /\ call[t].stacked
        /\ call[t].overlapped
        /\ \E i \in 1..Len(call[t].stackedFrom) :
              call[t].stackedFrom[i] \notin {0, call[t].id}

\* C9: the blocks of a forward call run in descent-then-ascent order: the
\* downsample blocks of levels 0, 1, ... each on the output of the one
\* above, then the bottleneck once, then the upsample blocks from the
\* deepest level up, each on (the output returned by the next level, this
\* level's own down_out); the bottleneck output reaches level 0 unchanged.
C9_DescentThenAscent ==
    \A t \in Threads :
        call[t].pc \notin {"idle"} =>
            LET c == call[t]
                log == c.log
                m == ChainLen(self.skip_layers)
            IN  /\ Len(log) <= 2 * m + 1
                /\ c.pc \in {"outputs", "stack", "done"} =>
                      /\ Len(log) = 2 * m + 1
                      /\ c.bottleneck_out = log[m + 1].out
                      /\ c.up_out = log[2 * m + 1].out
                /\ \A i \in 1..Len(log) :
                      LET e == log[i]
                      IN  IF i <= m
                          THEN /\ e.op = "down"
                               /\ e.lvl = i - 1
                               /\ e.a = IF i = 1 THEN InputTensor(c.x) ELSE log[i - 1].out
                               /\ e.out = Apply(NodeAt(self.skip_layers, i - 1).downsample, e.a)
                          ELSE IF i = m + 1
                          THEN /\ e.op = "bottleneck"
                               /\ e.a = log[m].out
                               /\ e.out = Apply(self.bottleneck, e.a)
                          ELSE /\ e.op = "up"
                               /\ e.lvl = 2 * m + 1 - i
                               /\ e.a = log[i - 1].out
                               /\ e.b = log[e.lvl + 1].out
                               /\ e.out = ApplyUp(NodeAt(self.skip_layers, e.lvl).upsample,
                                                  e.a, e.b)

\* a traversal of a three-level chain has returned to forward
C9_Witness ==
    \E t \in Threads :
        /\ call[t].pc = "outputs"
        /\ ChainLen(self.skip_layers) = 3
        /\ Len(call[t].log) = 7

\* C10: when the traversal of a forward call has completed, the call has
\* written every head-buffer slot exactly once, from slot deep_supr_num-1
\* down to slot 0, so no slot holds the placeholder or an earlier call's
\* value when the stacking step reads the buffer.
C10_SlotsRewritten ==
    \A t \in Threads :
        /\ call[t].pc # "IndexError"
        /\ call[t].pc \in {"outputs", "stack", "done"} =>
              LET c == call[t]
                  n == Len(self.heads)
              IN  /\ c.writes = [i \in 1..n |-> n - i]
                  /\ \A s \in 1..n :
                        /\ headWriter[s] = c.id
                        /\ self.heads[s] # EmptyTensor

\* the second or a later call is about to stack a two-slot buffer
C10_Witness ==
    \E t \in Threads :
        /\ call[t].pc = "stack"
        /\ Len(self.heads) = 2
        /\ call[t].id >= 2
        /\ call[t].heads0 # PyRepeat(EmptyTensor, 2)


\* C11: in every constructed network with n = len(strides) stages, the
\* blocks wired into SkipLayer level k (0 <= k <= n-2) agree: the downsample
\* block outputs filters[k] channels; the upsample block takes filters[k+1]
\* channels (what the next level, or the bottleneck at the bottom, outputs),
\* outputs filters[k], and uses kernel_size[k+1] and strides[k+1]; a
\* supervision head attached at level k takes filters[k] channels.
C11_LevelWiring ==
    pc = "constructed" =>
        LET n == Len(args.strides)
        IN  /\ ChainLen(self.skip_layers) = n - 1
            /\ Bottom(self.skip_layers).out_channels = self.filters[n]
            /\ \A k \in 0..(n - 2) :
                  LET layer == NodeAt(self.skip_layers, k)
                  IN  /\ layer.index = k
                      /\ layer.downsample.out_channels = self.filters[k + 1]
                      /\ layer.next_layer.cls = "DynUNetSkipLayer" =>
                            layer.next_layer.downsample.out_channels = self.filters[k + 2]
                      /\ layer.upsample.cls = "UnetUpBlock"
                      /\ layer.upsample.in_channels = self.filters[k + 2]
                      /\ layer.upsample.out_channels = self.filters[k + 1]
                      /\ layer.upsample.kernel_size = args.kernel_size[k + 2]
                      /\ layer.upsample.stride = args.strides[k + 2]
                      /\ layer.super_head.cls # "None" =>
                            layer.super_head.in_channels = self.filters[k + 1]

\* a four-stage network with two supervision heads, explicit filters longer
\* than strides and a tuple kernel has been constructed
C11_Witness ==
    /\ pc = "constructed"
    /\ Len(args.strides) = 4
    /\ ~args.filters_is_None
    /\ Len(args.filters) > Len(args.strides)
    /\ NodeAt(self.skip_layers, 2).super_head.cls # "None"
    /\ ~NodeAt(self.skip_layers, 2).upsample.kernel_size.int

\* ---------------------------------------------- what holds of the code
\* (checked under the specification named with each)

\* SpecInit: whenever construction raises, no skip-layer chain was composed
Aux_NoChainOnRaise == pc = "raised" => "skip_layers" \notin built

\* SpecInit: the range check raises exactly for deep_supr_num >= len(strides)-1
Aux_UpperRangeCheck ==
    "heads" \in built =>
        ((error = "DeepSupervisionRangeError")
            <=> args.deep_supr_num >= Len(args.strides) - 1)

\* SpecInit: unequal or short kernel_size/strides never construct a network
Aux_BadLengthsRaise ==
    (/\ Terminal
     /\ Len(args.kernel_size) # Len(args.strides) \/ Len(args.kernel_size) < 3)
        => pc = "raised"

\* SpecInit: a valid spec with at least len(strides)-1 output paddings composes
Aux_EnoughPaddingsCompose ==
    (ValidSpec /\ Len(args.output_paddings) >= Len(args.strides) - 1) =>
        /\ C4_ValidSpecComposes
        /\ Terminal => pc = "constructed"

\* SpecInit: head attachment is as stated when deep_supr_num >= 0
Aux_HeadAttachmentNonNegative == args.deep_supr_num >= 0 => C5_HeadAttachment

\* Spec: the returned stack is as stated when deep_supr_num >= 0
Aux_TrainingStackNonNegative == args.deep_supr_num >= 0 => C6_TrainingStack

\* construction alone, over every constructor call
SpecInit == (\E a \in AllArgs : InitWith(a, TRUE)) /\ [][NextInit]_vars

\* construction, then forward calls the caller serializes
Spec == (\E a \in PlainArgs : InitWith(a, TRUE)) /\ [][Next]_vars

\* construction, then forward calls from threads that take no lock
SpecConc == (\E a \in PlainArgs : InitWith(a, FALSE)) /\ [][NextConc]_vars

====
